---- MODULE Spec2Model ----
(***************************************************************************)
(* Model of the gobpf bcc package: the BPF map table (bcc/table.go) with   *)
(* its iterator, DeleteAll and stack-trace reader, and the Symbolizer and  *)
(* the module symbol cache of the same package.                            *)
(*                                                                         *)
(* The kernel map behind a table is modelled with the semantics of a BPF   *)
(* hash map: lookup/delete of an absent key fail with ENOENT, update with  *)
(* flag 0 creates or replaces, get_next_key of an absent key restarts at   *)
(* the first key.  Every kernel call is one atomic step; the handlers that *)
(* issue several kernel calls with other threads able to run in between    *)
(* (TableIterator.Next, DeleteAll) are split at their kernel calls.        *)
(***************************************************************************)
EXTENDS Integers, Sequences, FiniteSets, TLC

\* ------------------------------------------------------------------ bounds
MaxKey == 3          \* keys of the map are 1..MaxKey

\* --------------------------------------------------------- map descriptor
LeafSize == 1        \* bpf_table_leaf_size_id: the base leaf size in bytes
NumCPU == 2          \* len(cpupossible.Get()): the possible CPUs of the host

Keys == 1..MaxKey
NoKey == 0           \* it.key == nil / no key returned (ENOENT)
Bytes == 0..1        \* the values a byte of a leaf takes
Absent == <<>>       \* no entry under a key
MapKinds == {"generic", "percpu"}

\* The leaf size the kernel stores for one entry of a map of this kind.
KernelValueSize(kind) == IF kind = "percpu" THEN LeafSize * NumCPU ELSE LeafSize

Leaves(kind) == [1..KernelValueSize(kind) -> Bytes]

\* Leaves all of whose bytes are equal: what the instrumentation program
\* (the writer on the kernel side) stores.
UniformLeaves(kind) == {[i \in 1..KernelValueSize(kind) |-> b] : b \in Bytes}

ZeroBuf(n) == [i \in 1..n |-> 0]

RECURSIVE Perms(_)
Perms(S) == IF S = {} THEN {<<>>}
            ELSE UNION {{<<x>> \o p : p \in Perms(S \ {x})} : x \in S}

VARIABLES
  mapKind,    \* bpf_table_type_id of the table
  order,      \* the kernel's walk order of the keys (a permutation of Keys)
  kmap,       \* the kernel map: key -> leaf, or Absent
  written,    \* per key: the leaf of the last successful Set not overwritten or deleted since
  tret,       \* result of the last Get/Set/Delete
  it,         \* TableIterator: key, leaf, err
  itPc,       \* position inside Next(): "idle" or "lookup"
  itRet,      \* what the last completed Next() returned: "none", "true", "false"
  itKernel,   \* the kernel calls of the Next() in progress or completed last
  itVisited,  \* keys on which Next() returned true, while the walk is undisturbed
  itTrue,     \* number of Next() calls that returned true, while undisturbed
  itClean,    \* no write to the map since Iter()
  daPc,       \* DeleteAll: "idle", "delete", "next", "done"
  daKey,      \* DeleteAll: the key buffer
  daErr,      \* DeleteAll: the returned error
  daClean,    \* no write by anyone else since DeleteAll started
  daN0,       \* entries in the map when DeleteAll started
  daDeleted,  \* entries DeleteAll has deleted while undisturbed
  stackMap,   \* the stack-trace map: stack id -> array of addresses, or Absent
  sret,       \* the last GetStackAddr / ClearStackId call and its kernel calls
  bccSymbolCache, \* Symbolizer: pid -> resolver handle, or NoHandle
  nextHandle, \* the next resolver handle bcc_symcache_new returns
  freeCount,  \* per resolver handle: how often bcc_free_symcache was called on it
  rret,       \* the last SymbolOrAddrIfUnknown / ReleasePidSymCache / GetAddrSymbol call
  pidSym,     \* Table.pidSym: pid -> resolver handle, or NoHandle
  cache,      \* symbolCache.cache: module -> symbols, or NoSlot
  currentModule, \* symbolCache.currentModule
  lock,       \* symbolCache.lock: the thread holding it, or 0
  scanCount,  \* per module: how often bcc_foreach_function_symbol ran on it
  tpc,        \* per thread: its position in ListSymbols / MatchSymbols
  targ,       \* per thread: the call it is in
  tscan,      \* per thread: symbols its running enumeration has delivered
  tres,       \* the result of the call that completed last
  nret        \* the last ResolveNameToAddress / ResolveAddressForName call

tableVars == <<mapKind, order, kmap, written, tret>>
iterVars == <<it, itPc, itRet, itKernel, itVisited, itTrue, itClean>>
daVars == <<daPc, daKey, daErr, daClean, daN0, daDeleted>>
stackVars == <<stackMap, sret>>
symVars == <<bccSymbolCache, nextHandle, freeCount, rret, pidSym>>
idxVars == <<cache, currentModule, lock, scanCount, tpc, targ, tscan, tres>>
nameVars == <<nret>>
otherVars == <<stackVars, symVars, idxVars, nameVars>>
vars == <<tableVars, iterVars, daVars, stackVars, symVars, idxVars, nameVars>>

\* ------------------------------------------------------- kernel map calls
Present(m) == {k \in Keys : m[k] # Absent}

\* bpf_lookup_elem: the leaf, or Absent for ENOENT
KLookup(m, k) == m[k]

\* bpf_update_elem(fd, key, leaf, 0): create or replace, copying the map's
\* value size from the leaf pointer
KUpdate(m, kind, k, leaf) ==
  [m EXCEPT ![k] = [i \in 1..KernelValueSize(kind) |-> leaf[i]]]

\* bpf_delete_elem: removes the key (the caller checks presence for ENOENT)
KDelete(m, k) == [m EXCEPT ![k] = Absent]

RECURSIVE FirstFrom(_, _, _)
FirstFrom(ord, m, i) ==
  IF i > Len(ord) THEN NoKey
  ELSE IF m[ord[i]] # Absent THEN ord[i]
  ELSE FirstFrom(ord, m, i + 1)

PosOf(ord, k) == CHOOSE i \in 1..Len(ord) : ord[i] = k

\* bpf_get_first_key: the first key of the walk, NoKey for ENOENT
KFirstKey(ord, m) == FirstFrom(ord, m, 1)

\* bpf_get_next_key(fd, key, next): the key after `key`; a key that is not
\* in the map restarts the walk at the first key
KNextKey(ord, m, k) ==
  IF m[k] = Absent THEN FirstFrom(ord, m, 1)
  ELSE FirstFrom(ord, m, PosOf(ord, k) + 1)

\* --------------------------------------------------------------- Table
\* A bug that forgets the per-CPU multiplication.
LeafBufSize_base(kind) == LeafSize

\* The buffer Get and the iterator allocate for the leaf.
LeafBufSize(kind) == IF kind = "percpu" THEN LeafSize * NumCPU ELSE LeafSize

\* The kernel copies the stored leaf into the caller's buffer.
CopyOut(value, n) == [i \in 1..n |-> IF i <= Len(value) THEN value[i] ELSE 0]

NoRet == [op |-> "none", key |-> NoKey, leaf |-> Absent, ok |-> TRUE, calls |-> <<>>]

\* Writes by anyone end the iterator's and DeleteAll's undisturbed walk.
IterDisturbed ==
  /\ itClean' = FALSE
  /\ itVisited' = {}
  /\ itTrue' = 0
  /\ UNCHANGED <<it, itPc, itRet, itKernel>>

Disturb ==
  /\ IterDisturbed
  /\ daClean' = (daClean /\ daPc = "idle")
  /\ UNCHANGED <<daPc, daKey, daErr, daN0, daDeleted>>

\* A bug that repeats the lookup.
Get_retry(key) ==
  /\ LET leaf == KLookup(kmap, key) IN
       tret' = IF leaf = Absent
               THEN [op |-> "Get", key |-> key, leaf |-> Absent, ok |-> FALSE,
                     calls |-> <<"bpf_lookup_elem", "bpf_lookup_elem">>]
               ELSE [op |-> "Get", key |-> key,
                     leaf |-> CopyOut(leaf, LeafBufSize(mapKind)), ok |-> TRUE,
                     calls |-> <<"bpf_lookup_elem">>]
  /\ UNCHANGED <<mapKind, order, kmap, written, iterVars, daVars, otherVars>>

\* Table.Get: one bpf_lookup_elem into a buffer of the kind's leaf size
Get(key) ==
  /\ LET leaf == KLookup(kmap, key) IN
       tret' = IF leaf = Absent
               THEN [op |-> "Get", key |-> key, leaf |-> Absent, ok |-> FALSE,
                     calls |-> <<"bpf_lookup_elem">>]
               ELSE [op |-> "Get", key |-> key,
                     leaf |-> CopyOut(leaf, LeafBufSize(mapKind)), ok |-> TRUE,
                     calls |-> <<"bpf_lookup_elem">>]
  /\ UNCHANGED <<mapKind, order, kmap, written, iterVars, daVars, otherVars>>

Set(key, leaf) ==
  /\ kmap' = KUpdate(kmap, mapKind, key, leaf)
  /\ written' = [written EXCEPT ![key] = leaf]
  /\ tret' = [op |-> "Set", key |-> key, leaf |-> leaf, ok |-> TRUE,
              calls |-> <<"bpf_update_elem">>]
  /\ Disturb
  /\ UNCHANGED <<mapKind, order, otherVars>>

\* A bug that does not look at what bpf_delete_elem returned.
Delete_unchecked(key) ==
  /\ IF kmap[key] = Absent
     THEN /\ tret' = [op |-> "Delete", key |-> key, leaf |-> Absent, ok |-> TRUE,
                        calls |-> <<"bpf_delete_elem">>]
          /\ UNCHANGED <<kmap, written, iterVars, daVars>>
     ELSE /\ kmap' = KDelete(kmap, key)
          /\ written' = [written EXCEPT ![key] = Absent]
          /\ tret' = [op |-> "Delete", key |-> key, leaf |-> Absent, ok |-> TRUE,
                        calls |-> <<"bpf_delete_elem">>]
          /\ Disturb
  /\ UNCHANGED <<mapKind, order, otherVars>>

\* Table.Delete: bpf_delete_elem, an error when it returns non-zero
Delete(key) ==
  /\ IF kmap[key] = Absent
     THEN /\ tret' = [op |-> "Delete", key |-> key, leaf |-> Absent, ok |-> FALSE,
                        calls |-> <<"bpf_delete_elem">>]
          /\ UNCHANGED <<kmap, written, iterVars, daVars>>
     ELSE /\ kmap' = KDelete(kmap, key)
          /\ written' = [written EXCEPT ![key] = Absent]
          /\ tret' = [op |-> "Delete", key |-> key, leaf |-> Absent, ok |-> TRUE,
                        calls |-> <<"bpf_delete_elem">>]
          /\ Disturb
  /\ UNCHANGED <<mapKind, order, otherVars>>

\* The instrumentation program (or another handle) stores an entry.
ConcurrentUpdate(key, leaf) ==
  /\ kmap' = KUpdate(kmap, mapKind, key, leaf)
  /\ written' = [written EXCEPT ![key] = Absent]
  /\ Disturb
  /\ UNCHANGED <<mapKind, order, tret, otherVars>>

\* Another handle deletes an entry.
ConcurrentDelete(key) ==
  /\ kmap[key] # Absent
  /\ kmap' = KDelete(kmap, key)
  /\ written' = [written EXCEPT ![key] = Absent]
  /\ Disturb
  /\ UNCHANGED <<mapKind, order, tret, otherVars>>

\* ------------------------------------------- stack traces: data and state
BPF_MAX_STACK_DEPTH == 127
MaxStackId == 1      \* stack ids in the stack-trace map are 0..MaxStackId
MaxShallow == 2      \* stored stacks hold 0..MaxShallow addresses, or 126, or 127

StackIds == 0..MaxStackId
StackDepths == (0..MaxShallow) \cup {BPF_MAX_STACK_DEPTH - 1, BPF_MAX_STACK_DEPTH}

\* The i-th address of a stored stack: 0xAA, 0xBB, 0xCC, ...
StackAddr(i) == 170 + 17 * (i - 1)

\* struct stacktrace_t: n addresses, the terminating zero, then `tail`
\* (zero, or a stale address left behind the terminator).
StackLeaf(n, tail) ==
  [i \in 1..BPF_MAX_STACK_DEPTH |->
     IF i <= n THEN StackAddr(i) ELSE IF i = n + 1 THEN 0 ELSE tail]

StackLeaves == {StackLeaf(n, tail) : n \in StackDepths, tail \in {0, StackAddr(1)}}

NoSRet == [op |-> "none", stackId |-> 0, clear |-> FALSE, res |-> <<>>,
           calls |-> <<>>, leaf |-> Absent, after |-> FALSE]

StackInit ==
  /\ stackMap = [id \in StackIds |-> Absent]
  /\ sret = NoSRet

\* ------------------------------------------------ symbolizer: data and state
MaxPid == 2          \* process ids are -1 (kernel) and 1..MaxPid
MaxHandles == 3      \* resolver handles bcc_symcache_new hands out

Pids == {-1} \cup (1..MaxPid)
Handles == 1..MaxHandles
NoHandle == 0

\* What bcc_symcache_resolve reports: its return value, the symbol's
\* demangled name, whether that name is a buffer of its own (a demangled C++
\* name) or the symbol's name itself, and the containing module and offset.
Resolved(demangle, owned) ==
  [ret |-> 0, demangle |-> demangle, owned |-> owned, module |-> <<>>, offset |-> 0]
Unresolved(module, offset) ==
  [ret |-> -1, demangle |-> <<>>, owned |-> FALSE, module |-> module, offset |-> offset]

Addrs == {0, 170, 48879}
Offsets == {0, 4660}
Outcomes ==
  {Resolved(<<"m", "a", "i", "n">>, FALSE), Resolved(<<"f", "(", ")">>, TRUE)}
  \cup {Unresolved(<<"l", "i", "b", "c">>, o) : o \in Offsets}
  \cup {Unresolved(<<>>, 0)}

NoRRet == [op |-> "none", pid |-> -1, addr |-> 0, outcome |-> Unresolved(<<>>, 0),
           text |-> <<>>, handle |-> NoHandle, again |-> FALSE, order |-> <<>>]

SymInit ==
  /\ bccSymbolCache = [p \in Pids |-> NoHandle]
  /\ nextHandle = 1
  /\ freeCount = [h \in Handles |-> 0]
  /\ rret = NoRRet
  /\ pidSym = [p \in Pids |-> NoHandle]

\* ------------------------------------------- module symbol index: data and state
MaxThreads == 2      \* threads calling into the module symbol index

Threads == 1..MaxThreads
NoThread == 0
Modules == {"libfoo", "libbar"}
NoModule == ""

Sym(name, addr) == [name |-> name, addr |-> addr]

\* What bcc_foreach_function_symbol delivers for a module, in order.
ModuleSymbols(m) ==
  IF m = "libfoo"
  THEN << Sym(<<"f", "o", "o", "_", "a">>, 16),
          Sym(<<"b", "a", "r">>, 32),
          Sym(<<"f", "o", "o", "_", "b">>, 48) >>
  ELSE << Sym(<<"f", "o", "o">>, 64) >>

\* Regular expressions: "^foo_", "bar", and "(" which does not compile.
Pattern(src, valid, anchored, lit) ==
  [src |-> src, valid |-> valid, anchored |-> anchored, lit |-> lit]
NoPattern == Pattern("", TRUE, FALSE, <<>>)
Patterns == {Pattern("^foo_", TRUE, TRUE, <<"f", "o", "o", "_">>),
             Pattern("bar", TRUE, FALSE, <<"b", "a", "r">>),
             Pattern("(", FALSE, FALSE, <<>>)}

NoSlot == [present |-> FALSE, syms |-> <<>>]
NoCall == [op |-> "none", module |-> NoModule, pattern |-> NoPattern]
NoRes == [op |-> "none", thread |-> NoThread, module |-> NoModule,
          pattern |-> NoPattern, err |-> "nil", syms |-> <<>>, scanned |-> FALSE]

IdxInit ==
  /\ cache = [m \in Modules |-> NoSlot]
  /\ currentModule = NoModule
  /\ lock = NoThread
  /\ scanCount = [m \in Modules |-> 0]
  /\ tpc = [t \in Threads |-> "idle"]
  /\ targ = [t \in Threads |-> NoCall]
  /\ tscan = [t \in Threads |-> 0]
  /\ tres = NoRes

\* ------------------------------------------ point lookups: data and state
NotFound == -1
\* The symbol names a point lookup asks for: those of the modules and one
\* that no module has.
SymNames ==
  UNION {{ModuleSymbols(m)[i].name : i \in 1..Len(ModuleSymbols(m))} : m \in Modules}
  \cup {<<"n", "o", "p", "e">>}

NoNRet == [op |-> "none", module |-> NoModule, name |-> <<>>, addr |-> 0,
           pid |-> -1, libPid |-> -1, reported |-> NotFound, err |-> "nil",
           result |-> 0, modname |-> NoModule, made |-> 0, freed |-> 0]

NameInit == nret = NoNRet

OtherInit == StackInit /\ SymInit /\ IdxInit /\ NameInit

\* --------------------------------------------------------- initial states
IterInit ==
  /\ it = [key |-> NoKey, leaf |-> Absent, err |-> "nil"]
  /\ itPc = "idle"
  /\ itRet = "none"
  /\ itKernel = <<>>
  /\ itVisited = {}
  /\ itTrue = 0
  /\ itClean = TRUE

DaInit ==
  /\ daPc = "idle"
  /\ daKey = NoKey
  /\ daErr = "nil"
  /\ daClean = TRUE
  /\ daN0 = 0
  /\ daDeleted = 0

InitTable ==
  /\ mapKind \in MapKinds
  /\ order = [i \in 1..MaxKey |-> i]
  /\ kmap = [k \in Keys |-> Absent]
  /\ written = [k \in Keys |-> Absent]
  /\ tret = NoRet
  /\ IterInit
  /\ DaInit
  /\ OtherInit

NextTable ==
  \/ \E k \in Keys : Get(k)
  \/ \E k \in Keys : \E l \in Leaves(mapKind) : Set(k, l)
  \/ \E k \in Keys : Delete(k)
  \/ \E k \in Keys : \E l \in UniformLeaves(mapKind) : ConcurrentUpdate(k, l)
  \/ \E k \in Keys : ConcurrentDelete(k)

SpecTable == InitTable /\ [][NextTable]_vars

\* C1: a successful Set(key, leaf) followed by Get(key) with no write to the
\* key in between returns exactly the bytes passed to Set, for both map kinds.
C1_SetGetRoundTrip ==
  (tret.op = "Get" /\ written[tret.key] # Absent)
    => (tret.ok /\ tret.leaf = written[tret.key])

C1_Witness ==
  /\ tret.op = "Get"
  /\ tret.ok
  /\ mapKind = "percpu"
  /\ written[tret.key] # Absent
  /\ \E i \in 1..Len(tret.leaf) : tret.leaf[i] # 0
  /\ \E i, j \in 1..Len(tret.leaf) : tret.leaf[i] # tret.leaf[j]

\* ------------------------------------------------------- TableIterator
\* Table.Iter(): a fresh iterator
Iter ==
  /\ itPc = "idle"
  /\ it' = [key |-> NoKey, leaf |-> Absent, err |-> "nil"]
  /\ itRet' = "none"
  /\ itKernel' = <<>>
  /\ itVisited' = {}
  /\ itTrue' = 0
  /\ itClean' = TRUE
  /\ UNCHANGED <<itPc, tableVars, daVars, otherVars>>

\* Next() returns false without reaching the lookup.
NextReturnsFalse(newIt) ==
  /\ it' = newIt
  /\ itPc' = "idle"
  /\ itRet' = "false"

\* A bug that asks for the first key on every call.
IterAdvance_first(ord, m, key) == KFirstKey(ord, m)

\* The key Next() positions on: the first key while it.key is nil, the key
\* after it.key otherwise; NoKey when the kernel reports ENOENT.
IterAdvance(ord, m, key) ==
  IF key = NoKey THEN KFirstKey(ord, m) ELSE KNextKey(ord, m, key)

\* A bug that does not look at it.err.
Failed_never(iter) == FALSE

\* if it.err != nil
Failed(iter) == iter.err # "nil"

\* Next() up to and including its first-key / next-key call.
NextPosition ==
  /\ itPc = "idle"
  /\ IF Failed(it)
     THEN /\ NextReturnsFalse(it)
          /\ itKernel' = <<>>
     ELSE LET k == IterAdvance(order, kmap, it.key) IN
            /\ itKernel' = <<IF it.key = NoKey THEN "bpf_get_first_key"
                             ELSE "bpf_get_next_key">>
            /\ IF k = NoKey
               THEN NextReturnsFalse(it)
               ELSE /\ it' = [it EXCEPT
                                !.key = k,
                                !.leaf = IF it.key = NoKey
                                         THEN ZeroBuf(LeafBufSize(mapKind))
                                         ELSE it.leaf]
                    /\ itPc' = "lookup"
                    /\ UNCHANGED itRet
  /\ UNCHANGED <<itVisited, itTrue, itClean, tableVars, daVars, otherVars>>

\* A bug that takes a lookup that finds no entry for the end of the walk.
NextLookup_end ==
  /\ itPc = "lookup"
  /\ itPc' = "idle"
  /\ itKernel' = Append(itKernel, "bpf_lookup_elem")
  /\ LET leaf == KLookup(kmap, it.key) IN
       IF leaf = Absent
       THEN /\ it' = it
            /\ itRet' = "false"
            /\ UNCHANGED <<itVisited, itTrue>>
       ELSE /\ it' = [it EXCEPT !.leaf = CopyOut(leaf, Len(it.leaf))]
            /\ itRet' = "true"
            /\ itVisited' = IF itClean THEN itVisited \cup {it.key} ELSE itVisited
            /\ itTrue' = IF itClean THEN itTrue + 1 ELSE itTrue
  /\ UNCHANGED <<itClean, tableVars, daVars, otherVars>>

\* The rest of Next(): the lookup of the leaf of the key just positioned on.
NextLookup ==
  /\ itPc = "lookup"
  /\ itPc' = "idle"
  /\ itKernel' = Append(itKernel, "bpf_lookup_elem")
  /\ LET leaf == KLookup(kmap, it.key) IN
       IF leaf = Absent
       THEN /\ it' = [it EXCEPT !.err = "errIterationFailed"]
            /\ itRet' = "false"
            /\ UNCHANGED <<itVisited, itTrue>>
       ELSE /\ it' = [it EXCEPT !.leaf = CopyOut(leaf, Len(it.leaf))]
            /\ itRet' = "true"
            /\ itVisited' = IF itClean THEN itVisited \cup {it.key} ELSE itVisited
            /\ itTrue' = IF itClean THEN itTrue + 1 ELSE itTrue
  /\ UNCHANGED <<itClean, tableVars, daVars, otherVars>>

InitIter ==
  /\ mapKind \in MapKinds
  /\ order \in Perms(Keys)
  /\ kmap = [k \in Keys |-> Absent]
  /\ written = [k \in Keys |-> Absent]
  /\ tret = NoRet
  /\ IterInit
  /\ DaInit
  /\ OtherInit

NextIter ==
  \/ Iter
  \/ NextPosition
  \/ NextLookup
  \/ \E k \in Keys : \E l \in UniformLeaves(mapKind) : ConcurrentUpdate(k, l)
  \/ \E k \in Keys : ConcurrentDelete(k)

SpecIter == InitIter /\ [][NextIter]_vars

\* C2: on a map of N entries not written to during the walk, Next() returns
\* true exactly N times, each time on a distinct key of the map, then false
\* with a nil Err(); on an empty map the first Next() returns false.
C2_IterVisitsEachKeyOnce ==
  itClean =>
    /\ it.err = "nil"
    /\ itVisited \subseteq Present(kmap)
    /\ itTrue = Cardinality(itVisited)
    /\ (itPc = "idle" /\ itRet = "true"
          => it.key \in itVisited /\ it.leaf = kmap[it.key])
    /\ (itRet = "false" => itVisited = Present(kmap))

C2_Witness ==
  /\ itClean
  /\ itRet = "false"
  /\ itTrue = 3
  /\ itVisited = {1, 2, 3}
  /\ order[1] = 2

C2_WitnessEmpty ==
  /\ itClean
  /\ itRet = "false"
  /\ Present(kmap) = {}

\* ------------------------------------------------------- Table.DeleteAll
\* The loop's condition: res == 0 enters the body, anything else returns nil.
DeleteAllLoop(key) ==
  /\ daErr' = "nil"
  /\ IF key = NoKey
     THEN /\ daPc' = "done"
          /\ UNCHANGED daKey
     ELSE /\ daPc' = "delete"
          /\ daKey' = key

\* DeleteAll up to and including bpf_get_first_key.
DeleteAllFirst ==
  /\ daPc \in {"idle", "done"}
  /\ daClean' = TRUE
  /\ daN0' = Cardinality(Present(kmap))
  /\ daDeleted' = 0
  /\ DeleteAllLoop(KFirstKey(order, kmap))
  /\ UNCHANGED <<tableVars, iterVars, otherVars>>

\* The loop body: bpf_delete_elem of the key in the buffer.
DeleteAllDelete ==
  /\ daPc = "delete"
  /\ IF kmap[daKey] = Absent
     THEN /\ daPc' = "done"
          /\ daErr' = "DeleteError"
          /\ UNCHANGED <<kmap, written, daDeleted>>
     ELSE /\ kmap' = KDelete(kmap, daKey)
          /\ written' = [written EXCEPT ![daKey] = Absent]
          /\ daDeleted' = IF daClean THEN daDeleted + 1 ELSE daDeleted
          /\ daPc' = "next"
          /\ UNCHANGED daErr
  /\ IF kmap' = kmap THEN UNCHANGED iterVars ELSE IterDisturbed
  /\ UNCHANGED <<mapKind, order, tret, daKey, daClean, daN0, otherVars>>

\* A bug that leaves the loop after the first delete.
DeleteAllNext_once ==
  /\ daPc = "next"
  /\ daPc' = "done"
  /\ daErr' = "nil"
  /\ UNCHANGED <<daKey, daClean, daN0, daDeleted, tableVars, iterVars, otherVars>>

\* The loop's post statement: bpf_get_next_key(fd, keyP, keyP) on the key
\* that was just deleted.
DeleteAllNext ==
  /\ daPc = "next"
  /\ DeleteAllLoop(KNextKey(order, kmap, daKey))
  /\ UNCHANGED <<daClean, daN0, daDeleted, tableVars, iterVars, otherVars>>

InitDeleteAll == InitIter

NextDeleteAll ==
  \/ DeleteAllFirst
  \/ DeleteAllDelete
  \/ DeleteAllNext
  \/ \E k \in Keys : \E l \in UniformLeaves(mapKind) : ConcurrentUpdate(k, l)
  \/ \E k \in Keys : ConcurrentDelete(k)

SpecDeleteAll == InitDeleteAll /\ [][NextDeleteAll]_vars

\* C3: with no concurrent writer, DeleteAll on a table of N entries
\* terminates (each turn of the loop deletes one of the N entries), returns
\* no error and leaves the map empty: the first-key call of an iteration
\* after it finds no key.
C3_DeleteAllEmpties ==
  (daClean /\ daPc # "idle") =>
    /\ daErr = "nil"
    /\ daDeleted + Cardinality(Present(kmap)) = daN0
    /\ (daPc = "delete" => kmap[daKey] # Absent)
    /\ (daPc = "done" => /\ Present(kmap) = {}
                         /\ daDeleted = daN0
                         /\ KFirstKey(order, kmap) = NoKey)

C3_Witness ==
  /\ daClean
  /\ daPc = "done"
  /\ daN0 = 3
  /\ daDeleted = 3
  /\ order[1] = 3

\* ------------------------------------------------------- stack-trace reader
\* A bug that skips zero entries instead of stopping at the first one.
StackPrefix_skip(stack) ==
  LET nz == {i \in 1..BPF_MAX_STACK_DEPTH : stack[i] # 0}
      nth(j) == CHOOSE i \in nz : Cardinality({x \in nz : x < i}) = j - 1
  IN [j \in 1..Cardinality(nz) |-> stack[nth(j)]]

\* for i := 0; i < BPF_MAX_STACK_DEPTH && stack.ip[i] != 0; i++ { append }:
\* the loop runs while every entry so far is non-zero, so it appends the
\* entries before the first zero, all BPF_MAX_STACK_DEPTH without a zero.
StackPrefix(stack) ==
  LET stops == {i \in 1..BPF_MAX_STACK_DEPTH : stack[i] = 0}
      n == IF stops = {} THEN BPF_MAX_STACK_DEPTH
           ELSE (CHOOSE i \in stops : \A j \in stops : i <= j) - 1
  IN [i \in 1..n |-> stack[i]]

\* The instrumentation program stores a stack under an id.
CaptureStack(id, leaf) ==
  /\ stackMap' = [stackMap EXCEPT ![id] = leaf]
  /\ sret' = NoSRet
  /\ UNCHANGED <<tableVars, iterVars, daVars, symVars, idxVars, nameVars>>

\* Table.Remove on the stack-trace map: bpf_delete_elem, its error dropped
StackRemove(m, id) == IF id \in StackIds THEN [m EXCEPT ![id] = Absent] ELSE m

\* Table.GetP on the stack-trace map: the leaf, or Absent on an error
StackGetP(m, id) == IF id \in StackIds THEN m[id] ELSE Absent

GetStackAddr(stackId, clear) ==
  /\ IF stackId < 0
     THEN /\ sret' = [op |-> "GetStackAddr", stackId |-> stackId, clear |-> clear,
                      res |-> <<>>, calls |-> <<>>, leaf |-> Absent,
                      after |-> FALSE]
          /\ UNCHANGED stackMap
     ELSE LET leaf == StackGetP(stackMap, stackId) IN
          IF leaf = Absent
          THEN /\ sret' = [op |-> "GetStackAddr", stackId |-> stackId,
                           clear |-> clear, res |-> <<>>, calls |-> <<"lookup">>,
                           leaf |-> Absent, after |-> FALSE]
               /\ UNCHANGED stackMap
          ELSE /\ stackMap' = IF clear THEN StackRemove(stackMap, stackId)
                              ELSE stackMap
               /\ sret' = [op |-> "GetStackAddr", stackId |-> stackId,
                           clear |-> clear, res |-> StackPrefix(leaf),
                           calls |-> IF clear THEN <<"lookup", "delete">>
                                     ELSE <<"lookup">>,
                           leaf |-> leaf,
                           after |-> (stackMap'[stackId] # Absent)]
  /\ UNCHANGED <<tableVars, iterVars, daVars, symVars, idxVars, nameVars>>

ClearStackId(stackId) ==
  /\ IF stackId > 0
     THEN /\ stackMap' = StackRemove(stackMap, stackId)
          /\ sret' = [NoSRet EXCEPT !.op = "ClearStackId", !.stackId = stackId,
                                    !.calls = <<"delete">>]
     ELSE /\ sret' = [NoSRet EXCEPT !.op = "ClearStackId", !.stackId = stackId]
          /\ UNCHANGED stackMap
  /\ UNCHANGED <<tableVars, iterVars, daVars, symVars, idxVars, nameVars>>

InitStack == InitTable

NextStack ==
  \/ \E id \in StackIds : \E leaf \in StackLeaves : CaptureStack(id, leaf)
  \/ \E id \in -1..MaxStackId : \E clear \in BOOLEAN : GetStackAddr(id, clear)
  \/ \E id \in -1..MaxStackId : ClearStackId(id)

SpecStack == InitStack /\ [][NextStack]_vars

\* C7: ResolveStack with stack_id <= 0 (in particular 0 with clear = true)
\* returns an empty sequence and issues no kernel call, neither a lookup nor
\* a delete.
C7_NoKernelCallForNonPositiveId ==
  (sret.op = "GetStackAddr" /\ sret.stackId <= 0)
    => (sret.res = <<>> /\ sret.calls = <<>>)

\* C8: when the lookup succeeds, the result is the prefix of the stored
\* array up to but excluding its first zero, in stored order, at most 127
\* addresses long (all 127 when the array holds no zero).
C8_PrefixBeforeFirstZero ==
  (sret.op = "GetStackAddr" /\ sret.leaf # Absent) =>
    /\ Len(sret.res) <= 127
    /\ \A i \in 1..Len(sret.res) : sret.res[i] = sret.leaf[i] /\ sret.res[i] # 0
    /\ (Len(sret.res) < 127 => sret.leaf[Len(sret.res) + 1] = 0)

C8_Witness ==
  /\ sret.op = "GetStackAddr"
  /\ sret.leaf # Absent
  /\ sret.res = <<170, 187>>
  /\ sret.leaf[4] # 0

C8_WitnessFull ==
  /\ sret.op = "GetStackAddr"
  /\ sret.leaf # Absent
  /\ Len(sret.res) = 127

\* C9: ResolveStack with a positive stack id and clear = true issues a
\* Delete for the id after the read, whether the read succeeded or failed,
\* and the id is not in the map when the call returns.
C9_DeleteAfterReadAlways ==
  (sret.op = "GetStackAddr" /\ sret.stackId > 0 /\ sret.clear)
    => (sret.calls = <<"lookup", "delete">> /\ ~sret.after)

\* --------------------------------------------------------------- Symbolizer
HexChars == <<"0", "1", "2", "3", "4", "5", "6", "7",
              "8", "9", "a", "b", "c", "d", "e", "f">>

\* %x: the hexadecimal digits of n, most significant first
RECURSIVE HexDigits(_)
HexDigits(n) ==
  IF n < 16 THEN <<HexChars[n + 1]>>
  ELSE HexDigits(n \div 16) \o <<HexChars[(n % 16) + 1]>>

\* %0<w>x: zero-padded on the left to at least w digits
ZeroPad(digits, w) ==
  IF Len(digits) >= w THEN digits
  ELSE [i \in 1..(w - Len(digits)) |-> "0"] \o digits

\* fmt.Sprintf("0x%016x", addr)
formatAddress(addr) == <<"0", "x">> \o ZeroPad(HexDigits(addr), 16)

\* fmt.Sprintf("[m] %s + 0x%08x", module, offset)
formatModuleName(module, offset) ==
  <<"[", "m", "]", " ">> \o module \o <<" ", "+", " ", "0", "x">>
    \o ZeroPad(HexDigits(offset), 8)

\* C.GoString of a buffer that bcc_symbol_free_demangle_name has released:
\* the old bytes, nothing, or whatever the allocator put there.
FreedRead(old) == {old, <<>>, <<"?">>}

\* name := symbol.demangle_name; C.bcc_symbol_free_demangle_name(symbol);
\* return C.GoString(name): the free releases the name only when it is a
\* buffer of its own.
DemangledText(outcome) ==
  IF outcome.owned THEN FreedRead(outcome.demangle) ELSE {outcome.demangle}

\* A bug that asks bcc_symcache_new for a handle on every call.
CachedOrNew_new(pid) == nextHandle

\* getBCCSymbolCache: the cached handle of the pid, or a new one
CachedOrNew(pid) ==
  IF bccSymbolCache[pid] # NoHandle THEN bccSymbolCache[pid] ELSE nextHandle

SymbolOrAddrIfUnknown(pid, addr) ==
  /\ bccSymbolCache[pid] # NoHandle \/ nextHandle \in Handles
  /\ bccSymbolCache' = [bccSymbolCache EXCEPT ![pid] = CachedOrNew(pid)]
  /\ nextHandle' = IF bccSymbolCache[pid] # NoHandle THEN nextHandle
                   ELSE nextHandle + 1
  /\ \E outcome \in Outcomes :
       \E text \in (IF outcome.ret = 0 THEN DemangledText(outcome)
                    ELSE IF outcome.module # <<>>
                    THEN {formatModuleName(outcome.module, outcome.offset)}
                    ELSE {formatAddress(addr)}) :
         rret' = [op |-> "Resolve", pid |-> pid, addr |-> addr,
                  outcome |-> outcome, text |-> text,
                  handle |-> CachedOrNew(pid), again |-> FALSE,
                  order |-> IF outcome.ret = 0
                            THEN <<"bcc_symbol_free_demangle_name", "GoString">>
                            ELSE <<>>]
  /\ UNCHANGED <<pidSym, freeCount, tableVars, iterVars, daVars, stackVars, idxVars, nameVars>>

\* A bug that frees the handle and leaves it in the map.
ReleasePidSymCache_keep(pid) ==
  /\ IF bccSymbolCache[pid] # NoHandle
     THEN freeCount' = [freeCount EXCEPT ![bccSymbolCache[pid]] = @ + 1]
     ELSE UNCHANGED freeCount
  /\ rret' = [NoRRet EXCEPT !.op = "Release", !.pid = pid,
                            !.handle = bccSymbolCache[pid],
                            !.again = (rret.op = "Release" /\ rret.pid = pid)]
  /\ UNCHANGED <<bccSymbolCache, nextHandle, pidSym>>
  /\ UNCHANGED <<tableVars, iterVars, daVars, stackVars, idxVars, nameVars>>

ReleasePidSymCache(pid) ==
  /\ IF bccSymbolCache[pid] # NoHandle
     THEN /\ freeCount' = [freeCount EXCEPT ![bccSymbolCache[pid]] = @ + 1]
          /\ bccSymbolCache' = [bccSymbolCache EXCEPT ![pid] = NoHandle]
     ELSE UNCHANGED <<freeCount, bccSymbolCache>>
  /\ rret' = [NoRRet EXCEPT !.op = "Release", !.pid = pid,
                            !.handle = bccSymbolCache[pid],
                            !.again = (rret.op = "Release" /\ rret.pid = pid)]
  /\ UNCHANGED <<nextHandle, pidSym>>
  /\ UNCHANGED <<tableVars, iterVars, daVars, stackVars, idxVars, nameVars>>

InitSym == InitTable

NextSym ==
  \/ \E pid \in Pids : \E addr \in Addrs : SymbolOrAddrIfUnknown(pid, addr)
  \/ \E pid \in Pids : ReleasePidSymCache(pid)

SpecSym == InitSym /\ [][NextSym]_vars

\* C4: Resolve returns the demangled name on a direct match, otherwise
\* "[m] <module> + 0x<offset, 8 hex digits>" when a containing module is
\* reported, otherwise "0x<address, 16 hex digits>".
C4_ResolveTextByPriority ==
  rret.op = "Resolve" =>
    rret.text = (IF rret.outcome.ret = 0 THEN rret.outcome.demangle
                 ELSE IF rret.outcome.module # <<>>
                 THEN formatModuleName(rret.outcome.module, rret.outcome.offset)
                 ELSE formatAddress(rret.addr))

\* C10: ReleaseCache(pid) frees the pid's handle and removes it from the
\* cache; a call for a pid without a handle (a second call in a row) changes
\* nothing and frees nothing; no handle is ever freed twice.
C10_ReleaseIdempotent ==
  /\ [](\A h \in Handles : freeCount[h] <= 1)
  /\ [][(rret'.op = "Release" /\ bccSymbolCache[rret'.pid] = NoHandle)
          => UNCHANGED <<bccSymbolCache, nextHandle, freeCount>>]_vars
  /\ [][(rret'.op = "Release" /\ bccSymbolCache[rret'.pid] # NoHandle)
          => /\ bccSymbolCache'[rret'.pid] = NoHandle
             /\ freeCount'[bccSymbolCache[rret'.pid]] = 1]_vars

C10_Witness ==
  /\ rret.op = "Release"
  /\ rret.again
  /\ rret.handle = NoHandle
  /\ \E h \in Handles : freeCount[h] = 1
  /\ nextHandle = 3

\* ------------------------------------------------------ module symbol index
\* A bug that takes every pattern as compiled.
Compiles_always(pattern) == TRUE

\* regexp.Compile succeeds
Compiles(pattern) == pattern.valid

\* r.MatchString(name): the literal occurs in the name, at its start when
\* the pattern is anchored
MatchString(pattern, name) ==
  \E i \in 1..(Len(name) - Len(pattern.lit) + 1) :
    /\ pattern.anchored => i = 1
    /\ SubSeq(name, i, i + Len(pattern.lit) - 1) = pattern.lit

\* A bug that leaves the loop at the first match.
MatchedSymbols_first(pattern, symbols) ==
  LET all == SelectSeq(symbols, LAMBDA sym : MatchString(pattern, sym.name))
  IN  IF all = <<>> THEN all ELSE <<all[1]>>

\* The loop of matchUserSymbols over the symbols of the module.
MatchedSymbols(pattern, symbols) ==
  SelectSeq(symbols, LAMBDA sym : MatchString(pattern, sym.name))

\* What the call of thread t returns for the symbols of its module.
CallResult(t, symbols) ==
  IF targ[t].op = "MatchSymbols"
  THEN MatchedSymbols(targ[t].pattern, symbols)
  ELSE symbols

\* A bug that never finds the module in the cache.
Cached_never(c, module) == FALSE

\* _, ok := symbolCache.cache[module]
Cached(c, module) == c[module].present

Return(t, err, symbols, scanned) ==
  /\ tres' = [op |-> targ[t].op, thread |-> t, module |-> targ[t].module,
              pattern |-> targ[t].pattern, err |-> err, syms |-> symbols,
              scanned |-> scanned]
  /\ tpc' = [tpc EXCEPT ![t] = "idle"]
  /\ targ' = [targ EXCEPT ![t] = NoCall]
  /\ tscan' = [tscan EXCEPT ![t] = 0]

\* ListSymbols(module): the call enters getUserSymbolsAndAddresses.
ListSymbols(t, module) ==
  /\ tpc[t] = "idle"
  /\ tpc' = [tpc EXCEPT ![t] = "lock"]
  /\ targ' = [targ EXCEPT ![t] = [op |-> "ListSymbols", module |-> module,
                                  pattern |-> NoPattern]]
  /\ UNCHANGED <<cache, currentModule, lock, scanCount, tscan, tres>>
  /\ UNCHANGED <<tableVars, iterVars, daVars, stackVars, symVars, nameVars>>

\* MatchSymbols(module, pattern) up to the call of getUserSymbolsAndAddresses:
\* a pattern that does not compile returns the error here.
MatchSymbols(t, module, pattern) ==
  /\ tpc[t] = "idle"
  /\ IF Compiles(pattern)
     THEN /\ tpc' = [tpc EXCEPT ![t] = "lock"]
          /\ targ' = [targ EXCEPT ![t] = [op |-> "MatchSymbols",
                                          module |-> module,
                                          pattern |-> pattern]]
          /\ UNCHANGED <<tscan, tres>>
     ELSE /\ tres' = [op |-> "MatchSymbols", thread |-> t, module |-> module,
                      pattern |-> pattern, err |-> "InvalidPattern",
                      syms |-> <<>>, scanned |-> FALSE]
          /\ UNCHANGED <<tpc, targ, tscan>>
  /\ UNCHANGED <<cache, currentModule, lock, scanCount>>
  /\ UNCHANGED <<tableVars, iterVars, daVars, stackVars, symVars, nameVars>>

\* A bug that enters getUserSymbolsAndAddresses without taking the lock.
LockAndLookup_nolock(t) ==
  /\ tpc[t] = "lock"
  /\ LET module == targ[t].module IN
       IF Cached(cache, module)
       THEN /\ Return(t, "nil", CallResult(t, cache[module].syms), FALSE)
            /\ UNCHANGED <<cache, currentModule, lock, scanCount>>
       ELSE /\ lock' = lock
            /\ cache' = [cache EXCEPT ![module] = [present |-> TRUE, syms |-> <<>>]]
            /\ currentModule' = module
            /\ scanCount' = [scanCount EXCEPT ![module] = @ + 1]
            /\ tpc' = [tpc EXCEPT ![t] = "scan"]
            /\ tscan' = [tscan EXCEPT ![t] = 0]
            /\ UNCHANGED <<targ, tres>>
  /\ UNCHANGED <<tableVars, iterVars, daVars, stackVars, symVars, nameVars>>

\* getUserSymbolsAndAddresses from lock.Lock() to the start of the scan: a
\* cached module returns its list (the deferred Unlock runs); a new module
\* gets its empty slot, becomes the current module, and the scan starts
\* with the lock held.
LockAndLookup(t) ==
  /\ tpc[t] = "lock"
  /\ lock = NoThread
  /\ LET module == targ[t].module IN
       IF Cached(cache, module)
       THEN /\ Return(t, "nil", CallResult(t, cache[module].syms), FALSE)
            /\ UNCHANGED <<cache, currentModule, lock, scanCount>>
       ELSE /\ lock' = t
            /\ cache' = [cache EXCEPT ![module] = [present |-> TRUE, syms |-> <<>>]]
            /\ currentModule' = module
            /\ scanCount' = [scanCount EXCEPT ![module] = @ + 1]
            /\ tpc' = [tpc EXCEPT ![t] = "scan"]
            /\ tscan' = [tscan EXCEPT ![t] = 0]
            /\ UNCHANGED <<targ, tres>>
  /\ UNCHANGED <<tableVars, iterVars, daVars, stackVars, symVars, nameVars>>

\* bcc_foreach_function_symbol delivers the next symbol of the module to
\* foreach_symbol_callback, which appends it to the current module's slot.
foreach_symbol_callback(t) ==
  /\ tpc[t] = "scan"
  /\ tscan[t] < Len(ModuleSymbols(targ[t].module))
  /\ cache' = [cache EXCEPT ![currentModule].syms =
                 Append(@, ModuleSymbols(targ[t].module)[tscan[t] + 1])]
  /\ tscan' = [tscan EXCEPT ![t] = @ + 1]
  /\ UNCHANGED <<currentModule, lock, scanCount, tpc, targ, tres>>
  /\ UNCHANGED <<tableVars, iterVars, daVars, stackVars, symVars, nameVars>>

\* The enumeration ends with res >= 0: the slot is returned, the deferred
\* Unlock runs.
ScanDone(t) ==
  /\ tpc[t] = "scan"
  /\ tscan[t] = Len(ModuleSymbols(targ[t].module))
  /\ Return(t, "nil", CallResult(t, cache[targ[t].module].syms), TRUE)
  /\ lock' = NoThread
  /\ UNCHANGED <<cache, currentModule, scanCount>>
  /\ UNCHANGED <<tableVars, iterVars, daVars, stackVars, symVars, nameVars>>

\* A variant that removes the slot of a module whose enumeration failed.
ScanFail_cleanup(t) ==
  /\ tpc[t] = "scan"
  /\ Return(t, "ScanError", <<>>, TRUE)
  /\ lock' = NoThread
  /\ cache' = [cache EXCEPT ![targ[t].module] = NoSlot]
  /\ UNCHANGED <<currentModule, scanCount>>
  /\ UNCHANGED <<tableVars, iterVars, daVars, stackVars, symVars, nameVars>>

\* The enumeration ends with res < 0: the error is returned, the deferred
\* Unlock runs, the slot stays as it is.
ScanFail(t) ==
  /\ tpc[t] = "scan"
  /\ Return(t, "ScanError", <<>>, TRUE)
  /\ lock' = NoThread
  /\ UNCHANGED <<cache, currentModule, scanCount>>
  /\ UNCHANGED <<tableVars, iterVars, daVars, stackVars, symVars, nameVars>>

InitIndex == InitTable

NextIndex ==
  \/ \E t \in Threads : \E m \in Modules : ListSymbols(t, m)
  \/ \E t \in Threads : \E m \in Modules : \E p \in Patterns : MatchSymbols(t, m, p)
  \/ \E t \in Threads : LockAndLookup(t)
  \/ \E t \in Threads : foreach_symbol_callback(t)
  \/ \E t \in Threads : ScanDone(t)
  \/ \E t \in Threads : ScanFail(t)

SpecIndex == InitIndex /\ [][NextIndex]_vars

\* C5: over any sequence of ListSymbols and MatchSymbols calls the full
\* enumeration of a module runs at most once; a call that finds the module
\* cached returns the cached sequence without enumerating.
C5_ScanAtMostOncePerModule ==
  /\ \A m \in Modules : scanCount[m] <= 1
  /\ \A m \in Modules : scanCount[m] = 1 <=> cache[m].present
  /\ (tres.op # "none" /\ tres.err = "nil")
       => /\ scanCount[tres.module] = 1
          /\ tres.syms = IF tres.op = "MatchSymbols"
                         THEN MatchedSymbols(tres.pattern, cache[tres.module].syms)
                         ELSE cache[tres.module].syms

C5_Witness ==
  /\ tres.op = "MatchSymbols"
  /\ tres.err = "nil"
  /\ ~tres.scanned
  /\ tres.module = "libfoo"
  /\ Len(tres.syms) = 2
  /\ scanCount["libfoo"] = 1

\* C6: of concurrent ListSymbols callers for a module that is not cached
\* yet, exactly one scans; the others wait for the lock until the scan is
\* over and then return the complete list of the module, never an empty or
\* partly built one.
C6_SingleFlightComplete ==
  /\ \A m \in Modules : scanCount[m] <= 1
  /\ \A t \in Threads : tpc[t] = "scan" => lock = t
  /\ (tres.op = "ListSymbols" /\ tres.err = "nil")
       => tres.syms = ModuleSymbols(tres.module)

\* ------------------------------------------- symbolizer handles (SpecSym)
\* The handles bcc_symcache_new has handed out and bcc_free_symcache has not
\* released yet.
LiveHandles == {h \in Handles : h < nextHandle /\ freeCount[h] = 0}

\* C11: over any sequence of Resolve and ReleaseCache calls on one
\* Symbolizer there is at most one live handle per pid: every live handle is
\* the map entry of exactly one pid. Resolve creates a handle only for a pid
\* without a cached one and reuses the cached one otherwise; a handle is
\* released only by ReleaseCache for the pid it is cached under, never by
\* Resolve.
C11_OneLiveHandlePerPid ==
  /\ [](\A h \in LiveHandles :
          \E p \in Pids : /\ bccSymbolCache[p] = h
                          /\ \A q \in Pids : bccSymbolCache[q] = h => q = p)
  /\ [](\A p \in Pids : bccSymbolCache[p] # NoHandle
                          => bccSymbolCache[p] \in LiveHandles)
  /\ [][rret'.op = "Resolve"
          => /\ freeCount' = freeCount
             /\ IF bccSymbolCache[rret'.pid] # NoHandle
                THEN /\ rret'.handle = bccSymbolCache[rret'.pid]
                     /\ UNCHANGED <<bccSymbolCache, nextHandle>>
                ELSE /\ rret'.handle = nextHandle
                     /\ nextHandle' = nextHandle + 1
                     /\ bccSymbolCache' =
                          [bccSymbolCache EXCEPT ![rret'.pid] = nextHandle]]_vars
  /\ [][freeCount' # freeCount
          => /\ rret'.op = "Release"
             /\ bccSymbolCache[rret'.pid] # NoHandle
             /\ freeCount' = [freeCount EXCEPT ![bccSymbolCache[rret'.pid]] = 1]]_vars

C11_Witness ==
  /\ rret.op = "Resolve"
  /\ rret.handle = 2
  /\ bccSymbolCache[rret.pid] = 2
  /\ nextHandle = 4
  /\ freeCount[1] = 1
  /\ \E q \in Pids : bccSymbolCache[q] = 3

\* --------------------------------------- pattern matching (SpecIndex)
\* C12: MatchSymbols with a pattern that compiles returns exactly the
\* symbols of the module's ListSymbols sequence whose name matches the
\* pattern: all of them, no others, in the same relative order.
C12_MatchIsOrderedFilter ==
  (tres.op = "MatchSymbols" /\ tres.err = "nil") =>
    LET listed   == cache[tres.module].syms
        returned == tres.syms
        hits     == {j \in 1..Len(listed) :
                       MatchString(tres.pattern, listed[j].name)}
    IN  /\ Compiles(tres.pattern)
        /\ Len(returned) = Cardinality(hits)
        /\ \E f \in [1..Len(returned) -> 1..Len(listed)] :
             /\ \A i \in 1..Len(returned) : returned[i] = listed[f[i]]
             /\ \A i, j \in 1..Len(returned) : i < j => f[i] < f[j]
             /\ {f[i] : i \in 1..Len(returned)} = hits

C12_Witness ==
  /\ tres.op = "MatchSymbols"
  /\ tres.err = "nil"
  /\ tres.scanned
  /\ tres.pattern.anchored
  /\ Len(cache[tres.module].syms) = 3
  /\ Len(tres.syms) = 2
  /\ tres.syms[1] = cache[tres.module].syms[1]
  /\ tres.syms[2] = cache[tres.module].syms[3]

\* C13: MatchSymbols with a pattern that does not compile returns the
\* InvalidPattern error and leaves the module index as it was: the call
\* never reaches the lock-protected scan, and no cache slot is created or
\* modified.
C13_InvalidPatternTouchesNothing ==
  /\ [](\A t \in Threads : targ[t].pattern.valid)
  /\ [](tres.err = "InvalidPattern" => (~tres.pattern.valid /\ tres.syms = <<>>))
  /\ [][\A t \in Threads : \A m \in Modules : \A p \in Patterns :
          (MatchSymbols(t, m, p) /\ ~p.valid)
            => /\ tres'.err = "InvalidPattern"
               /\ tres'.thread = t /\ tres'.module = m /\ tres'.pattern = p
               /\ UNCHANGED <<cache, currentModule, lock, scanCount,
                              tpc, targ, tscan>>]_vars

C13_Witness ==
  /\ tres.op = "MatchSymbols"
  /\ tres.err = "InvalidPattern"
  /\ ~cache[tres.module].present
  /\ lock # NoThread
  /\ lock # tres.thread
  /\ tpc[tres.thread] = "idle"

\* ------------------------------------------------- Delete (SpecTable)
\* C14: Delete of a key that is not in the map returns the DeleteError and
\* leaves the map unchanged; Delete of a key that is in the map returns Ok
\* and removes exactly that key, every other entry staying as it was.
C14_DeleteRemovesExactlyKey ==
  [][\A key \in Keys :
       Delete(key) =>
         /\ tret'.op = "Delete"
         /\ tret'.key = key
         /\ IF key \in Present(kmap)
            THEN /\ tret'.ok
                 /\ Present(kmap') = Present(kmap) \ {key}
                 /\ \A other \in Keys \ {key} : kmap'[other] = kmap[other]
            ELSE /\ ~tret'.ok
                 /\ kmap' = kmap]_vars

C14_Witness ==
  /\ tret.op = "Delete"
  /\ tret.ok
  /\ kmap[tret.key] = Absent
  /\ Cardinality(Present(kmap)) = 2

C14_WitnessAbsent ==
  /\ tret.op = "Delete"
  /\ ~tret.ok
  /\ kmap[tret.key] = Absent
  /\ Cardinality(Present(kmap)) = 2

\* ------------------------------------------------------------ point lookups
\* The address the resolver library has for a symbol name of a module, or
\* NotFound.
AddressOfName(module, symname) ==
  LET hits == {i \in 1..Len(ModuleSymbols(module)) :
                 ModuleSymbols(module)[i].name = symname}
  IN  IF hits = {} THEN NotFound
      ELSE ModuleSymbols(module)[CHOOSE i \in hits : TRUE].addr

\* A bug that releases the handle on the success path only.
bccResolveName_leak(module, symname, pid) ==
  /\ LET addr  == 0
         addrC == AddressOfName(module, symname)
         res   == IF addrC = NotFound THEN -1 ELSE 0
     IN  nret' = [op |-> "ResolveNameToAddress", module |-> module,
                  name |-> symname, addr |-> 0, pid |-> pid, libPid |-> pid,
                  reported |-> addrC,
                  err |-> IF res < 0 THEN "NotFound" ELSE "nil",
                  result |-> IF res < 0 THEN 0 ELSE addr,
                  modname |-> NoModule, made |-> 1,
                  freed |-> IF res < 0 THEN 0 ELSE 1]
  /\ UNCHANGED <<tableVars, iterVars, daVars, stackVars, symVars, idxVars>>

\* bccResolveName: a resolver handle of its own (bcc_symcache_new, released
\* by the deferred bcc_free_symcache on every path);
\* bcc_symcache_resolve_name writes the address into addrC, a copy of the
\* zero-valued addr; the function returns addr.
bccResolveName(module, symname, pid) ==
  /\ LET addr  == 0
         addrC == AddressOfName(module, symname)
         res   == IF addrC = NotFound THEN -1 ELSE 0
     IN  nret' = [op |-> "ResolveNameToAddress", module |-> module,
                  name |-> symname, addr |-> 0, pid |-> pid, libPid |-> pid,
                  reported |-> addrC,
                  err |-> IF res < 0 THEN "NotFound" ELSE "nil",
                  result |-> IF res < 0 THEN 0 ELSE addr,
                  modname |-> NoModule, made |-> 1, freed |-> 1]
  /\ UNCHANGED <<tableVars, iterVars, daVars, stackVars, symVars, idxVars>>

\* resolveSymbolPath / bccResolveSymname: pid -1 is passed on as 0;
\* bcc_resolve_symname reports the module and, as the offset, the given
\* address or, when that is 0, the address of the symbol; no resolver handle
\* is made.
resolveSymbolPath(module, symname, addr, pid) ==
  /\ LET libPid == IF pid = -1 THEN 0 ELSE pid
         offset == IF addr # 0 THEN addr ELSE AddressOfName(module, symname)
         res    == IF offset = NotFound THEN -1 ELSE 0
     IN  nret' = [op |-> "ResolveAddressForName", module |-> module,
                  name |-> symname, addr |-> addr, pid |-> pid,
                  libPid |-> libPid, reported |-> offset,
                  err |-> IF res < 0 THEN "NotFound" ELSE "nil",
                  result |-> IF res < 0 THEN 0 ELSE offset,
                  modname |-> IF res < 0 THEN NoModule ELSE module,
                  made |-> 0, freed |-> 0]
  /\ UNCHANGED <<tableVars, iterVars, daVars, stackVars, symVars, idxVars>>

InitName == InitTable

NextName ==
  \/ \E m \in Modules : \E n \in SymNames : \E pid \in Pids :
       bccResolveName(m, n, pid)
  \/ \E m \in Modules : \E n \in SymNames : \E a \in Addrs : \E pid \in Pids :
       resolveSymbolPath(m, n, a, pid)

SpecName == InitName /\ [][NextName]_vars

\* C15: ResolveNameToAddress(module, name, pid) returns on success the
\* address the resolver reported for that name in that module, and the
\* NotFoundError when the resolver cannot locate the name.
C15_NameToAddressReturnsReported ==
  nret.op = "ResolveNameToAddress" =>
    IF nret.reported = NotFound
    THEN nret.err = "NotFound"
    ELSE nret.err = "nil" /\ nret.result = nret.reported

\* ------------------------------------------ iterator states (SpecIter)
\* C16: when Next() has obtained a key and the lookup of that key reports
\* no entry, Next() returns false and Err() is errIterationFailed, while a
\* Next() that returns false because there is no first / next key leaves
\* Err() nil.
C16_LookupMissIsIterationFailed ==
  /\ [][(NextLookup /\ KLookup(kmap, it.key) = Absent)
          => /\ itRet' = "false"
             /\ it'.err = "errIterationFailed"
             /\ it'.err # "nil"]_vars
  /\ []((itPc = "idle" /\ itRet = "false" /\ Len(itKernel) = 1)
          => it.err = "nil")
  /\ []((itPc = "idle" /\ itRet = "false" /\ Len(itKernel) = 2)
          => it.err = "errIterationFailed")

C16_Witness ==
  /\ itPc = "idle"
  /\ itRet = "false"
  /\ it.err = "errIterationFailed"
  /\ itKernel = <<"bpf_get_next_key", "bpf_lookup_elem">>
  /\ kmap[it.key] = Absent

\* ---------------------------------- kernel calls per operation (SpecCalls)
\* The table's own calls and one iterator over the same map.
InitCalls == InitTable

NextCalls ==
  \/ \E k \in Keys : Get(k)
  \/ \E k \in Keys : \E l \in UniformLeaves(mapKind) : Set(k, l)
  \/ \E k \in Keys : Delete(k)
  \/ Iter
  \/ NextPosition
  \/ NextLookup

SpecCalls == InitCalls /\ [][NextCalls]_vars

C18_FailedIsAbsorbing ==
  /\ [][(it.err # "nil" /\ ~Iter) => it' = it]_vars
  /\ [][(it.err # "nil" /\ NextPosition)
          => /\ itRet' = "false"
             /\ itPc' = "idle"
             /\ itKernel' = <<>>
             /\ it'.err = it.err
             /\ kmap' = kmap]_vars
  /\ [](it.err # "nil" => itPc = "idle" /\ itRet = "false")

C18_Witness ==
  /\ it.err = "errIterationFailed"
  /\ itPc = "idle"
  /\ itRet = "false"
  /\ itKernel = <<>>
  /\ kmap[it.key] # Absent
  /\ KNextKey(order, kmap, it.key) # NoKey

\* The last Next() returned false because there was no first / next key,
\* and no new iterator was made since.
Exhausted ==
  /\ itPc = "idle"
  /\ itRet = "false"
  /\ it.err = "nil"

\* C19: an exhausted iterator stays exhausted: once Next() has returned
\* false because there was no first / next key, every later Next() returns
\* false and the iterator is never positioned on a key again, also when
\* entries are stored in the map after the exhaustion (of an empty map or
\* after the last key).
C19_ExhaustedIsTerminal ==
  [][(Exhausted /\ NextPosition)
       => /\ itRet' = "false"
          /\ itPc' = "idle"
          /\ it' = it]_vars

\* ------------------------------------ concurrent scans (SpecIndex)
\* C20: under any interleaving of ListSymbols / MatchSymbols calls for
\* different modules, every symbol the enumeration of a module delivers is
\* appended to the slot of that module and of no other, and currentModule
\* names the module whose scan is in progress: it is written, and the
\* visitor runs, only while the lock is held.
C20_SymbolsGoToOwnSlot ==
  /\ [](\A t \in Threads :
          tpc[t] = "scan"
            => /\ lock = t
               /\ currentModule = targ[t].module
               /\ cache[targ[t].module].syms =
                    SubSeq(ModuleSymbols(targ[t].module), 1, tscan[t]))
  /\ [](\A m \in Modules :
          /\ Len(cache[m].syms) <= Len(ModuleSymbols(m))
          /\ \A i \in 1..Len(cache[m].syms) :
               cache[m].syms[i] = ModuleSymbols(m)[i])
  /\ [][(cache' # cache \/ currentModule' # currentModule)
          => /\ lock' \in Threads
             /\ lock \in {NoThread, lock'}
             /\ tpc'[lock'] = "scan"
             /\ \A m \in Modules \ {targ[lock'].module} : cache'[m] = cache[m]]_vars

C20_Witness ==
  \E t, u \in Threads :
    /\ tpc[t] = "scan"
    /\ targ[t].module = "libfoo"
    /\ tscan[t] = 2
    /\ Len(cache["libfoo"].syms) = 2
    /\ currentModule = "libfoo"
    /\ tpc[u] = "lock"
    /\ targ[u].module = "libbar"
    /\ cache["libbar"].syms = ModuleSymbols("libbar")

\* ------------------------- point lookups next to the caches (SpecPoint)
\* Point lookups while one Symbolizer makes and releases the handle of a pid
\* and one thread lists the symbols of a module.
PointThread == 1
PointModule == "libbar"
PointAddr == 0
PointPid == 1
\* a name the module has and one it does not have
PointNames == {ModuleSymbols(PointModule)[1].name, <<"n", "o", "p", "e">>}

InitPoint == InitTable

NextPoint ==
  \/ \E n \in PointNames : \E pid \in Pids :
       bccResolveName(PointModule, n, pid)
  \/ \E n \in PointNames : \E pid \in Pids :
       resolveSymbolPath(PointModule, n, PointAddr, pid)
  \/ SymbolOrAddrIfUnknown(PointPid, PointAddr)
  \/ ReleasePidSymCache(PointPid)
  \/ ListSymbols(PointThread, PointModule)
  \/ LockAndLookup(PointThread)
  \/ foreach_symbol_callback(PointThread)
  \/ ScanDone(PointThread)

SpecPoint == InitPoint /\ [][NextPoint]_vars

\* C21: the point lookups ResolveAddressForName and ResolveNameToAddress
\* leave the module cache of ListSymbols and the per-pid handle map of the
\* Symbolizer as they are and do not wait for the lock or use a cached
\* handle: their outcome depends on their arguments alone. Every resolver
\* handle such a call makes is released before it returns, when the name is
\* found and when it is not.
C21_PointLookupsTouchNoCache ==
  /\ [][nret' # nret
          => /\ nret'.op \in {"ResolveAddressForName", "ResolveNameToAddress"}
             /\ UNCHANGED <<bccSymbolCache, nextHandle, freeCount>>
             /\ UNCHANGED <<cache, currentModule, lock, scanCount>>
             /\ UNCHANGED <<rret, tpc, targ, tscan, tres>>]_vars
  /\ [](nret.made = nret.freed)
  /\ [](nret.op = "ResolveNameToAddress" => nret.made = 1)
  /\ [](nret.op # "none"
          => (nret.err = "nil") =
               (nret.addr # 0 \/ AddressOfName(nret.module, nret.name) # NotFound))

C21_Witness ==
  /\ nret.op = "ResolveNameToAddress"
  /\ nret.err = "NotFound"
  /\ nret.made = 1
  /\ nret.freed = 1
  /\ nret.pid = PointPid
  /\ bccSymbolCache[PointPid] # NoHandle
  /\ freeCount[1] = 1
  /\ lock = PointThread
  /\ cache[PointModule].present
  /\ cache[PointModule].syms = <<>>

C21_WitnessFound ==
  /\ nret.op = "ResolveAddressForName"
  /\ nret.err = "nil"
  /\ nret.libPid = 0
  /\ bccSymbolCache[PointPid] # NoHandle
  /\ cache[PointModule].syms = ModuleSymbols(PointModule)

\* ------------------------------------------ failed scans (SpecIndex)
\* C22: when the enumeration of a module fails, the call returns an error
\* and the slot made for the module before the scan stays in the cache
\* with the symbols appended so far; every later ListSymbols or
\* MatchSymbols for the module finds the slot, scans nothing and returns
\* that list (empty, partial or complete) with no error.
C22_FailedScanLeavesSlot ==
  /\ [][\A t \in Threads :
          ScanFail(t)
            => /\ tres'.err = "ScanError"
               /\ tres'.thread = t
               /\ cache' = cache
               /\ cache[targ[t].module].present
               /\ cache[targ[t].module].syms =
                    SubSeq(ModuleSymbols(targ[t].module), 1, tscan[t])
               /\ lock' = NoThread]_vars
  /\ [][\A t \in Threads :
          (LockAndLookup(t) /\ cache[targ[t].module].present)
            => /\ tres'.err = "nil"
               /\ tres'.thread = t
               /\ ~tres'.scanned
               /\ tres'.syms =
                    IF targ[t].op = "MatchSymbols"
                    THEN SelectSeq(cache[targ[t].module].syms,
                                   LAMBDA sym : MatchString(targ[t].pattern, sym.name))
                    ELSE cache[targ[t].module].syms
               /\ UNCHANGED <<cache, currentModule, lock, scanCount>>]_vars
  /\ [](\A m \in Modules : scanCount[m] <= 1)
  /\ [](\A m \in Modules : scanCount[m] = 1 => cache[m].present)

C22_Witness ==
  /\ tres.op = "ListSymbols"
  /\ tres.err = "nil"
  /\ ~tres.scanned
  /\ tres.module = "libfoo"
  /\ Len(tres.syms) = 1
  /\ cache["libfoo"].syms = tres.syms
  /\ scanCount["libfoo"] = 1
  /\ lock = NoThread

C22_WitnessEmpty ==
  /\ tres.op = "MatchSymbols"
  /\ tres.err = "nil"
  /\ ~tres.scanned
  /\ tres.module = "libbar"
  /\ cache["libbar"].present
  /\ cache["libbar"].syms = <<>>
  /\ lock = NoThread

\* ------------------------------------------------ Table.GetAddrSymbol
\* The pids GetAddrSymbol is called with: every negative pid stands for the
\* kernel.
AddrSymPids == Pids \cup {-2}

\* Table.GetAddrSymbol: the handle of the pid from table.pidSym or a new
\* one; "[UNKNOWN]" when bcc_symcache_resolve returns a negative value,
\* otherwise the demangled name, copied by C.GoString before
\* bcc_symbol_free_demangle_name releases it.
GetAddrSymbol(addr, pid) ==
  LET p      == IF pid < 0 THEN -1 ELSE pid
      cached == pidSym[p] # NoHandle
      handle == IF cached THEN pidSym[p] ELSE nextHandle
  IN  /\ cached \/ nextHandle \in Handles
      /\ pidSym' = [pidSym EXCEPT ![p] = handle]
      /\ nextHandle' = IF cached THEN nextHandle ELSE nextHandle + 1
      /\ \E outcome \in Outcomes :
           rret' = [op |-> "GetAddrSymbol", pid |-> p, addr |-> addr,
                    outcome |-> outcome,
                    text |-> IF outcome.ret < 0
                             THEN <<"[", "U", "N", "K", "N", "O", "W", "N", "]">>
                             ELSE outcome.demangle,
                    handle |-> handle, again |-> FALSE,
                    order |-> IF outcome.ret < 0 THEN <<>>
                              ELSE <<"GoString", "bcc_symbol_free_demangle_name">>]
      /\ UNCHANGED <<bccSymbolCache, freeCount>>
      /\ UNCHANGED <<tableVars, iterVars, daVars, stackVars, idxVars, nameVars>>

InitAddrSym == InitTable

NextAddrSym ==
  \/ \E pid \in Pids : SymbolOrAddrIfUnknown(pid, PointAddr)
  \/ \E pid \in AddrSymPids : GetAddrSymbol(PointAddr, pid)

SpecAddrSym == InitAddrSym /\ [][NextAddrSym]_vars

\* C23: in both address resolvers, Symbolizer.SymbolOrAddrIfUnknown and
\* Table.GetAddrSymbol, a successful resolution copies the demangled name
\* into the returned string before the buffer is released, so the returned
\* string is the demangled name and the buffer is never read after its
\* release call.
C23_CopyBeforeRelease ==
  (rret.op \in {"Resolve", "GetAddrSymbol"} /\ rret.outcome.ret = 0)
    => /\ rret.order = <<"GoString", "bcc_symbol_free_demangle_name">>
       /\ rret.text = rret.outcome.demangle
====
